---- MODULE Spec2Model ----
(***************************************************************************)
(* gh-pr-check: the check aggregator (checkAllChecksStatus) and the poll   *)
(* loop (monitorAllChecksStatus) of the three entry points                 *)
(*   src/index.js, src/unnamed/part_000, src/github-pr-monitor.js.         *)
(* JavaScript strings are sequences of one-character strings, so that      *)
(* toLowerCase, the /pull/<digits> match and parseInt are computed.         *)
(***************************************************************************)
EXTENDS Integers, Sequences, FiniteSets, TLC

VARIABLES
    variant,        \* which entry point runs
    argv,           \* process.argv.slice(2)
    pc,             \* where the process is suspended
    exitCode,       \* -1 while running, else the process exit status
    startTime,      \* monitorAllChecksStatus: const startTime
    now,            \* the clock, in ms
    checkCount,     \* monitorAllChecksStatus: let checkCount
    notificationCount, \* startContinuousNotifications: let notificationCount
    completion,     \* startContinuousNotifications: completionDuration, completionType
    prs,            \* the list an open interactive prompt was given
    checks,         \* the last list returned by `gh pr checks`
    result,         \* the last value returned by checkAllChecksStatus
    events          \* every collaborator call and report, in order

vars == <<variant, argv, pc, exitCode, startTime, now, checkCount,
          notificationCount, completion, prs, checks, result, events>>

----------------------------------------------------------------------------
(* Bounds of the model *)

MaxChecks == 2      \* longest check list handed to the aggregator
MaxPolls == 3       \* polls of one monitor run
MaxDurPolls == 7     \* polls of a run whose duration is formatted on its own
MaxRepeats == 2     \* 'repeat' notifications of one run

(* The fixed inter-poll interval, setTimeout(resolve, 20000) *)
PollIntervalMs == 20000

----------------------------------------------------------------------------
(* JavaScript values *)

Undefined == <<"undefined">>            \* not a string: no element is a character
EmptyString == <<>>
Falsy(v) == v = Undefined \/ v = EmptyString

UpperLetters == <<"A","B","C","D","E","F","G","H","I","J","K","L","M",
                  "N","O","P","Q","R","S","T","U","V","W","X","Y","Z">>
LowerLetters == <<"a","b","c","d","e","f","g","h","i","j","k","l","m",
                  "n","o","p","q","r","s","t","u","v","w","x","y","z">>
Digits == <<"0","1","2","3","4","5","6","7","8","9">>

IsDigit(c) == \E d \in DOMAIN Digits : Digits[d] = c
DigitValue(c) == (CHOOSE d \in DOMAIN Digits : Digits[d] = c) - 1

LowerChar(c) ==
    IF \E k \in DOMAIN UpperLetters : UpperLetters[k] = c
    THEN LowerLetters[CHOOSE k \in DOMAIN UpperLetters : UpperLetters[k] = c]
    ELSE c
UpperChar(c) ==
    IF \E k \in DOMAIN LowerLetters : LowerLetters[k] = c
    THEN UpperLetters[CHOOSE k \in DOMAIN LowerLetters : LowerLetters[k] = c]
    ELSE c

RECURSIVE toLowerCase(_)
toLowerCase(s) ==
    IF s = <<>> THEN <<>> ELSE <<LowerChar(Head(s))>> \o toLowerCase(Tail(s))
RECURSIVE toUpperCase(_)
toUpperCase(s) ==
    IF s = <<>> THEN <<>> ELSE <<UpperChar(Head(s))>> \o toUpperCase(Tail(s))

(* every way of writing the word w in upper and lower case letters *)
RECURSIVE Casings(_)
Casings(w) ==
    IF w = <<>> THEN {<<>>}
    ELSE {<<c>> \o rest : c \in {LowerChar(Head(w)), UpperChar(Head(w))},
                          rest \in Casings(Tail(w))}

(* s has pat at position k *)
HasAt(s, pat, k) ==
    /\ k >= 1
    /\ k + Len(pat) - 1 <= Len(s)
    /\ \A j \in 1..Len(pat) : s[k + j - 1] = pat[j]

(* the longest run of digits of s that starts at position k *)
RECURSIVE DigitRun(_, _)
DigitRun(s, k) ==
    IF k <= Len(s) /\ IsDigit(s[k]) THEN <<s[k]>> \o DigitRun(s, k + 1) ELSE <<>>

PullPattern == <<"/","p","u","l","l","/">>

(* prUrl.match(/\/pull\/(\d+)/): the leftmost match; the captured group, or
   Undefined for null *)
MatchPull(prUrl) ==
    LET hits == {k \in 1..Len(prUrl) :
                    HasAt(prUrl, PullPattern, k) /\ DigitRun(prUrl, k + 6) # <<>>}
    IN  IF hits = {} THEN Undefined
        ELSE DigitRun(prUrl, (CHOOSE k \in hits : \A m \in hits : k <= m) + 6)

(* parseInt(answer): leading digits as a number, NaN (-1) otherwise.  The
   answers of the model carry no sign and no leading blank. *)
RECURSIVE DigitsValue(_)
DigitsValue(ds) ==
    IF ds = <<>> THEN 0
    ELSE 10 * DigitsValue(SubSeq(ds, 1, Len(ds) - 1)) + DigitValue(ds[Len(ds)])
NaN == -1
parseInt(s) == IF DigitRun(s, 1) = <<>> THEN NaN ELSE DigitsValue(DigitRun(s, 1))

----------------------------------------------------------------------------
(* Raw check states and names *)

S_success == <<"s","u","c","c","e","s","s">>
S_completed == <<"c","o","m","p","l","e","t","e","d">>
S_failure == <<"f","a","i","l","u","r","e">>
S_failed == <<"f","a","i","l","e","d">>
S_cancelled == <<"c","a","n","c","e","l","l","e","d">>
S_pending == <<"p","e","n","d","i","n","g">>
S_in_progress == <<"i","n","_","p","r","o","g","r","e","s","s">>
S_skipped == <<"s","k","i","p","p","e","d">>
S_unknown == <<"u","n","k","n","o","w","n">>
S_Cancelled == <<"C","a","n","c","e","l","l","e","d">>

N_ci == <<"c","i">>
N_lint == <<"l","i","n","t">>
UnknownCheck == <<"U","n","k","n","o","w","n"," ","C","h","e","c","k">>

PendingWords == <<S_pending, S_in_progress>>
(* FailedWords without the state that getStatusEmoji treats on its own *)
FailedWordsNoCancelled == <<S_failure, S_failed>>
FailedWords == <<S_failure, S_failed, S_cancelled>>
CompletedWords == <<S_success, S_completed>>

(* Array.prototype.includes *)
includes(arr, v) == \E k \in DOMAIN arr : arr[k] = v

(* getStatusEmoji with `cancelled` among the failure cases *)
getStatusEmojiThreeWay(status) ==
    LET s == toLowerCase(status)
    IN  CASE s = S_success \/ s = S_completed -> "check-mark"
          [] s = S_failure \/ s = S_failed \/ s = S_cancelled -> "cross-mark"
          [] s = S_pending \/ s = S_in_progress -> "yellow-circle"
          [] OTHER -> "question-mark"

(* src/index.js getStatusEmoji: the switch on status.toLowerCase() *)
getStatusEmoji(status) ==
    LET s == toLowerCase(status)
    IN  CASE s = S_success \/ s = S_completed -> "check-mark"
          [] s = S_failure \/ s = S_failed -> "cross-mark"
          [] s = S_pending \/ s = S_in_progress -> "yellow-circle"
          [] s = S_cancelled -> "white-circle"
          [] OTHER -> "question-mark"

----------------------------------------------------------------------------
(* The aggregator: src/index.js checkAllChecksStatus, lines 56-120 *)

ErrorResult == [error |-> TRUE]
NoResult == [none |-> TRUE]
IsError(r) == "error" \in DOMAIN r
IsSnapshot(r) == "summary" \in DOMAIN r

(* the let-bound accumulators before checks.forEach *)
EmptyAcc ==
    [allCompleted |-> TRUE, hasFailures |-> FALSE,
     pendingChecks |-> <<>>, completedChecks |-> <<>>, failedChecks |-> <<>>]

(* Categorize with a failed check also ending allCompleted *)
CategorizeFailedIncomplete(acc, check) ==
    LET status == IF Falsy(check.state) THEN S_unknown ELSE check.state
        context == IF Falsy(check.name) THEN UnknownCheck ELSE check.name
    IN  IF includes(PendingWords, toLowerCase(status))
        THEN [acc EXCEPT !.allCompleted = FALSE,
                         !.pendingChecks = Append(@, context)]
        ELSE IF includes(FailedWords, toLowerCase(status))
        THEN [acc EXCEPT !.allCompleted = FALSE,
                         !.hasFailures = TRUE,
                         !.failedChecks = Append(@, context)]
        ELSE IF includes(CompletedWords, toLowerCase(status))
        THEN [acc EXCEPT !.completedChecks = Append(@, context)]
        ELSE acc

(* Categorize comparing the status as written, without toLowerCase *)
CategorizeCaseSensitive(acc, check) ==
    LET status == IF Falsy(check.state) THEN S_unknown ELSE check.state
        context == IF Falsy(check.name) THEN UnknownCheck ELSE check.name
    IN  IF includes(PendingWords, status)
        THEN [acc EXCEPT !.allCompleted = FALSE,
                         !.pendingChecks = Append(@, context)]
        ELSE IF includes(FailedWords, status)
        THEN [acc EXCEPT !.hasFailures = TRUE,
                         !.failedChecks = Append(@, context)]
        ELSE IF includes(CompletedWords, status)
        THEN [acc EXCEPT !.completedChecks = Append(@, context)]
        ELSE acc

(* Categorize with a final else that takes any other status as pending *)
CategorizeUnknownPending(acc, check) ==
    LET status == IF Falsy(check.state) THEN S_unknown ELSE check.state
        context == IF Falsy(check.name) THEN UnknownCheck ELSE check.name
    IN  IF includes(FailedWords, toLowerCase(status))
        THEN [acc EXCEPT !.hasFailures = TRUE,
                         !.failedChecks = Append(@, context)]
        ELSE IF includes(CompletedWords, toLowerCase(status))
        THEN [acc EXCEPT !.completedChecks = Append(@, context)]
        ELSE [acc EXCEPT !.allCompleted = FALSE,
                         !.pendingChecks = Append(@, context)]

(* Categorize with unshift in place of push *)
CategorizeUnshift(acc, check) ==
    LET status == IF Falsy(check.state) THEN S_unknown ELSE check.state
        context == IF Falsy(check.name) THEN UnknownCheck ELSE check.name
    IN  IF includes(PendingWords, toLowerCase(status))
        THEN [acc EXCEPT !.allCompleted = FALSE,
                         !.pendingChecks = <<context>> \o @]
        ELSE IF includes(FailedWords, toLowerCase(status))
        THEN [acc EXCEPT !.hasFailures = TRUE,
                         !.failedChecks = <<context>> \o @]
        ELSE IF includes(CompletedWords, toLowerCase(status))
        THEN [acc EXCEPT !.completedChecks = <<context>> \o @]
        ELSE acc

(* one call of the forEach callback: the if / else if / else if chain *)
Categorize(acc, check) ==
    LET status == IF Falsy(check.state) THEN S_unknown ELSE check.state
        context == IF Falsy(check.name) THEN UnknownCheck ELSE check.name
    IN  IF includes(PendingWords, toLowerCase(status))
        THEN [acc EXCEPT !.allCompleted = FALSE,
                         !.pendingChecks = Append(@, context)]
        ELSE IF includes(FailedWords, toLowerCase(status))
        THEN [acc EXCEPT !.hasFailures = TRUE,
                         !.failedChecks = Append(@, context)]
        ELSE IF includes(CompletedWords, toLowerCase(status))
        THEN [acc EXCEPT !.completedChecks = Append(@, context)]
        ELSE acc

RECURSIVE forEachCheck(_, _)
forEachCheck(list, acc) ==
    IF list = <<>> THEN acc
    ELSE forEachCheck(Tail(list), Categorize(acc, Head(list)))

(* Snapshot without the early return on an empty list *)
SnapshotOfEmpty(list, prNumber) ==
    LET acc == forEachCheck(list, EmptyAcc)
    IN  [completed |-> acc.allCompleted,
         hasFailures |-> acc.hasFailures,
         checks |-> list,
         prNumber |-> prNumber,
         summary |-> [total |-> Len(list),
                      pending |-> acc.pendingChecks,
                      completed |-> acc.completedChecks,
                      failed |-> acc.failedChecks]]

(* Snapshot with the accumulators declared outside the function: they start
   from what the previous call left *)
SnapshotCarry(list, prNumber) ==
    IF Len(list) = 0 THEN ErrorResult
    ELSE LET kept == IF IsSnapshot(result)
                     THEN [allCompleted |-> result.completed,
                           hasFailures |-> result.hasFailures,
                           pendingChecks |-> result.summary.pending,
                           completedChecks |-> result.summary.completed,
                           failedChecks |-> result.summary.failed]
                     ELSE EmptyAcc
             acc == forEachCheck(list, kept)
         IN  [completed |-> acc.allCompleted,
              hasFailures |-> acc.hasFailures,
              checks |-> list,
              prNumber |-> prNumber,
              summary |-> [total |-> Len(list),
                           pending |-> acc.pendingChecks,
                           completed |-> acc.completedChecks,
                           failed |-> acc.failedChecks]]

(* what checkAllChecksStatus returns once `checks` is parsed *)
Snapshot(list, prNumber) ==
    IF Len(list) = 0 THEN ErrorResult
    ELSE LET acc == forEachCheck(list, EmptyAcc)
         IN  [completed |-> acc.allCompleted,
              hasFailures |-> acc.hasFailures,
              checks |-> list,
              prNumber |-> prNumber,
              summary |-> [total |-> Len(list),
                           pending |-> acc.pendingChecks,
                           completed |-> acc.completedChecks,
                           failed |-> acc.failedChecks]]

----------------------------------------------------------------------------
(* formatDuration(startTime, endTime) *)

(* formatDuration without the `% 60000` of the seconds *)
formatDurationNoModulo(start, end) ==
    LET durationMs == end - start
        minutes == durationMs \div 60000
        seconds == durationMs \div 1000
    IN  IF minutes > 0
        THEN [form |-> "m s", minutes |-> minutes, seconds |-> seconds]
        ELSE [form |-> "s", seconds |-> seconds]

formatDuration(start, end) ==
    LET durationMs == end - start
        minutes == durationMs \div 60000
        seconds == (durationMs % 60000) \div 1000
    IN  IF minutes > 0
        THEN [form |-> "m s", minutes |-> minutes, seconds |-> seconds]
        ELSE [form |-> "s", seconds |-> seconds]

----------------------------------------------------------------------------
(* Command line *)

A_single == <<"-","-","s","i","n","g","l","e">>
A_verbose == <<"-","-","v","e","r","b","o","s","e">>
A_help == <<"-","-","h","e","l","p">>
A_h == <<"-","h">>

GitHubHost == <<"g","i","t","h","u","b",".","c","o","m","/">>
Url12 == GitHubHost \o <<"o","/","r","/","p","u","l","l","/","1","2">>
Url7 == GitHubHost \o <<"o","/","r","/","p","u","l","l","/","7">>
BadUrl == GitHubHost \o <<"o","/","r","/","p","u","l","l","/","x">>

(* the command lines of the model: process.argv.slice(2) *)
ArgvSet ==
    { <<>>, <<Url12>>, <<BadUrl>>, <<A_single>>, <<A_verbose>>, <<A_help>>,
      <<Url12, A_single>>, <<Url12, A_verbose>>, <<BadUrl, A_single>>,
      <<A_single, Url12>>, <<Url7, A_h>> }

(* const prUrl = process.argv[2] *)
prUrl == IF Len(argv) >= 1 THEN argv[1] ELSE Undefined
singleCheck == includes(argv, A_single)
verbose == includes(argv, A_verbose)
help == includes(argv, A_help) \/ includes(argv, A_h)

Variants == {"index", "part_000", "github-pr-monitor"}
(* the entry points that define getOpenPRs / selectPR and --help *)
HasDiscovery == variant \in {"part_000", "github-pr-monitor"}

----------------------------------------------------------------------------
(* Collaborators: what `gh`, the terminal and the notifier may answer *)

SeqUpTo(S, n) == UNION {[1..k -> S] : k \in 0..n}

S_SUCCESS == toUpperCase(S_success)
S_SKIPPED == toUpperCase(S_skipped)

(* `gh pr checks`: the lists a poll may fetch, one for every mix of classes
   the loop tells apart, and the call (or JSON.parse) throwing *)
Chk(n, st) == [name |-> n, state |-> st]
PollLists ==
    { <<>>,
      <<Chk(N_ci, S_SUCCESS), Chk(N_lint, S_pending)>>,
      <<Chk(N_ci, S_failure), Chk(N_lint, S_pending)>>,
      <<Chk(N_ci, S_SUCCESS)>>,
      <<Chk(N_ci, S_SKIPPED)>>,
      <<Chk(N_ci, S_SUCCESS), Chk(N_lint, S_failure)>>,
      <<Chk(N_ci, S_SUCCESS), Chk(N_lint, S_SKIPPED)>> }
Thrown == [ok |-> FALSE]                   \* execSync or JSON.parse threw
Parsed(list) == [ok |-> TRUE, list |-> list]
FetchOutcomes == {Thrown} \cup {Parsed(l) : l \in PollLists}

(* `gh pr list --state open`: the first n pull requests of the pool *)
PRPool == <<[number |-> 12, url |-> Url12], [number |-> 7, url |-> Url7]>>
Discoveries == {Thrown} \cup {Parsed(SubSeq(PRPool, 1, n)) : n \in 0..Len(PRPool)}

(* answers typed at "Please select a PR" *)
SelectAnswers == { <<"Q">>, <<"q","u","i","t">>, <<"2">>, <<"5">>, <<"x">> }
(* answers typed at "Enter PR URL" *)
UrlAnswers == { <<"q">>, <<"Q","U","I","T">>, <<>>, <<" ">>, BadUrl, Url7 }

(* the lists the aggregator is applied to on its own *)
RawStates ==
    { S_success, S_completed, S_failure, S_failed, S_cancelled, S_pending,
      S_in_progress, S_SUCCESS, S_Cancelled, S_SKIPPED, S_unknown,
      EmptyString, Undefined }
RawNames == {N_ci, N_lint, Undefined}
RawChecks == {[name |-> n, state |-> st] : n \in RawNames, st \in RawStates}

(* the seven states the aggregator knows, in every letter casing, each as the
   state of a list of one check *)
CasedStates ==
    UNION {Casings(w) : w \in {S_success, S_completed, S_failure, S_failed,
                               S_cancelled, S_pending, S_in_progress}}
CasedLists == {<<Chk(N_ci, st)>> : st \in CasedStates}

----------------------------------------------------------------------------
(* Observable events *)

Ev(kind, a) == [ev |-> kind, arg |-> a]
ConsoleLog(text) == Ev("print", text)

(* sendNotification(message, type): the title chosen, then notifier.notify *)
sendNotification(message, type) ==
    LET title ==
            IF variant = "github-pr-monitor"
            THEN CASE type = "success" -> "All Checks Complete"
                   [] type = "failure" -> "Checks Failed"
                   [] type = "repeat" -> "PR Status Update"
                   [] OTHER -> "PR Monitor"
            ELSE IF type = "success" THEN "All Checks Complete"
                 ELSE "Checks Failed"
    IN  Ev("notify", [type |-> type, title |-> title, message |-> message])

----------------------------------------------------------------------------
(* checkAllChecksStatus from "Extract PR number from URL" to its return:
   every outcome the check source allows, with the events it produces *)

CheckFromUrl(url) ==
    LET match == MatchPull(url)
        head == <<ConsoleLog("Checking all checks status"), Ev("fetch", url)>>
    IN  IF match = Undefined
        THEN {[result |-> ErrorResult, fetched |-> FALSE, list |-> <<>>,
               evs |-> <<ConsoleLog("Invalid PR URL format. Expected format")>>]}
        ELSE {IF ~f.ok
              THEN [result |-> ErrorResult, fetched |-> FALSE, list |-> <<>>,
                    evs |-> head \o <<Ev("throw", "gh pr checks"),
                                      ConsoleLog("Error checking status")>>]
              ELSE [result |-> Snapshot(f.list, match), fetched |-> TRUE,
                    list |-> f.list,
                    evs |-> head \o <<IF Len(f.list) = 0
                                      THEN ConsoleLog("No checks found for this PR")
                                      ELSE ConsoleLog("All Checks Status")>>]
              : f \in FetchOutcomes}

(* an early `return { error: true }` of checkAllChecksStatus *)
EarlyError(evs) ==
    [result |-> ErrorResult, fetched |-> FALSE, list |-> <<>>, evs |-> evs]

----------------------------------------------------------------------------
(* The process: suspension points and handlers *)

Exit(code, log) ==
    /\ pc' = "exited"
    /\ exitCode' = code
    /\ events' = log \o <<Ev("exit", code)>>

(* the timer of the poll loop is armed: await new Promise(setTimeout 20000) *)
Wait(log) ==
    /\ pc' = "wait"
    /\ exitCode' = exitCode
    /\ events' = log \o <<ConsoleLog("Waiting 20 seconds before next check"),
                          Ev("wait", PollIntervalMs)>>

(* the message of a terminal or repeated notification *)
Message(r, duration, type, withFailed) ==
    [outcome |-> IF type = "success" THEN "completed successfully"
                 ELSE "completed with failures",
     prNumber |-> r.prNumber,
     duration |-> duration,
     failed |-> IF withFailed THEN r.summary.failed ELSE <<>>]

(* OnError with the halt of one entry point taken by all of them *)
OnErrorHalt(log) ==
    /\ UNCHANGED <<completion, notificationCount>>
    /\ Exit(1, log \o <<ConsoleLog("Error occurred")>>)

(* OnError with a retry bound: the second poll in error ends the run *)
OnErrorBounded(log) ==
    /\ UNCHANGED <<completion, notificationCount>>
    /\ IF variant = "github-pr-monitor" \/ checkCount' >= 2
       THEN Exit(1, log \o <<ConsoleLog("Error occurred")>>)
       ELSE Wait(log \o <<ConsoleLog("Error occurred, will retry in 20 seconds")>>)

(* OnError starting the next poll without the await on the timer *)
OnErrorNoWait(log) ==
    /\ UNCHANGED <<completion, notificationCount>>
    /\ pc' = "poll"
    /\ exitCode' = exitCode
    /\ events' = log \o <<ConsoleLog("Error occurred, will retry in 20 seconds")>>

(* the `result.error` branch of the loop body *)
OnError(log) ==
    /\ UNCHANGED <<completion, notificationCount>>
    /\ IF variant = "github-pr-monitor"
       THEN Exit(1, log \o <<ConsoleLog("Error occurred")>>)
       ELSE Wait(log \o <<ConsoleLog("Error occurred, will retry in 20 seconds")>>)

(* OnPending without the await on the timer: the loop polls again at once *)
OnPendingNoWait(r, log) ==
    /\ UNCHANGED <<completion, notificationCount>>
    /\ pc' = "poll"
    /\ exitCode' = exitCode
    /\ events' = log \o <<ConsoleLog("Progress")>>

(* the final `else` of the loop body: progress, then the wait *)
OnPending(r, log) ==
    /\ UNCHANGED <<completion, notificationCount>>
    /\ Wait(log \o <<ConsoleLog("Progress")>>)

(* OnCompleted without its `break`: the loop waits and polls again *)
OnCompletedNoBreak(r, log) ==
    LET duration == formatDuration(startTime, now)
        type == IF r.hasFailures THEN "failure" ELSE "success"
    IN  /\ UNCHANGED <<completion, notificationCount>>
        /\ Wait(log \o <<ConsoleLog("Summary"),
                          sendNotification(Message(r, duration, type, FALSE), type)>>)

(* the `result.completed` branch of the loop body *)
OnCompleted(r, log) ==
    LET duration == formatDuration(startTime, now)
        type == IF r.hasFailures THEN "failure" ELSE "success"
        told == log \o <<ConsoleLog("Summary"),
                         Ev("total-time", [duration |-> duration,
                                           checks |-> checkCount']),
                         sendNotification(Message(r, duration, type, FALSE), type)>>
        repeat == sendNotification(Message(r, duration, type, TRUE), "repeat")
    IN  \E notifyThrows \in BOOLEAN :
          IF notifyThrows
          THEN /\ UNCHANGED <<completion, notificationCount>>
               /\ IF variant = "index"
                  THEN \* no handler: the rejection is unhandled, and the exit
                       \* status is the node version's
                       \E code \in {0, 1} :
                          Exit(code, told \o <<Ev("throw", "notifier.notify")>>)
                  ELSE Exit(1, told \o <<Ev("throw", "notifier.notify"),
                                         ConsoleLog("Error:")>>)
          ELSE IF variant = "github-pr-monitor"
          THEN \* startContinuousNotifications runs to its first await
               /\ completion' = [duration |-> duration, type |-> type]
               /\ notificationCount' = 1
               /\ \E repeatThrows \in BOOLEAN :
                    IF repeatThrows
                    THEN Exit(1, told \o <<repeat, Ev("throw", "notifier.notify"),
                                           ConsoleLog("Error:")>>)
                    ELSE /\ pc' = "repeatWait"
                         /\ exitCode' = exitCode
                         /\ events' = told \o <<repeat, Ev("wait", PollIntervalMs)>>
          ELSE \* break: the loop and the process end
               /\ UNCHANGED <<completion, notificationCount>>
               /\ Exit(0, told)

(* Evaluate taking a snapshot with failures as complete *)
EvaluateFailFast(r, log) ==
    IF IsError(r) THEN OnError(log)
    ELSE IF r.completed \/ r.hasFailures THEN OnCompleted(r, log)
    ELSE OnPending(r, log)

(* the loop body of monitorAllChecksStatus after `await checkAllChecksStatus` *)
Evaluate(r, log) ==
    IF IsError(r) THEN OnError(log)
    ELSE IF r.completed THEN OnCompleted(r, log)
    ELSE OnPending(r, log)

(* Return with the loop body run in single mode too *)
ReturnToLoop(o, pre) ==
    LET log == events \o pre \o o.evs \o <<Ev("result", o.result)>>
    IN  /\ result' = o.result
        /\ checks' = IF o.fetched THEN o.list ELSE checks
        /\ Evaluate(o.result, log)

(* checkAllChecksStatus returns outcome o; pre are this handler's events so far *)
Return(o, pre) ==
    LET log == events \o pre \o o.evs \o <<Ev("result", o.result)>>
    IN  /\ result' = o.result
        /\ checks' = IF o.fetched THEN o.list ELSE checks
        /\ IF singleCheck
           THEN \* the result is dropped and the process runs out of work
                /\ UNCHANGED <<completion, notificationCount>>
                /\ Exit(0, log)
           ELSE Evaluate(o.result, log)

(* the handler stops at rl.question *)
Suspend(at, pre) ==
    /\ pc' = at
    /\ events' = events \o pre
    /\ UNCHANGED <<exitCode, result, checks, completion, notificationCount>>

(* process.exit inside checkAllChecksStatus or at top level *)
Quit(code, pre) ==
    /\ Exit(code, events \o pre)
    /\ UNCHANGED <<result, checks, completion, notificationCount>>

----------------------------------------------------------------------------
(* The interactive prompts *)

IsQuit(answer) ==
    toLowerCase(answer) = <<"q">> \/ toLowerCase(answer) = <<"q","u","i","t">>

RECURSIVE trimStart(_)
trimStart(s) == IF s # <<>> /\ Head(s) = " " THEN trimStart(Tail(s)) ELSE s
RECURSIVE trimEnd(_)
trimEnd(s) ==
    IF s # <<>> /\ s[Len(s)] = " " THEN trimEnd(SubSeq(s, 1, Len(s) - 1)) ELSE s
trim(s) == trimEnd(trimStart(s))

(* the first "/" of s at or after position k, or 0 *)
NextSlash(s, k) ==
    IF \E j \in k..Len(s) : s[j] = "/"
    THEN CHOOSE j \in k..Len(s) : s[j] = "/" /\ \A m \in k..(j - 1) : s[m] # "/"
    ELSE 0

(* answer.match(/github\.com\/[^\/]+\/[^\/]+\/pull\/\d+/) is not null *)
MatchGitHubPull(s) ==
    \E k \in 1..Len(s) :
        /\ HasAt(s, GitHubHost, k)
        /\ LET owner == k + Len(GitHubHost)
               slash1 == NextSlash(s, owner)
               slash2 == NextSlash(s, slash1 + 1)
           IN  /\ slash1 > owner
               /\ slash2 > slash1 + 1
               /\ HasAt(s, PullPattern, slash2)
               /\ DigitRun(s, slash2 + 6) # <<>>

(* RepeatNotification with the outcome not taken from the terminal poll *)
RepeatNotificationSuccess ==
    sendNotification(Message(result, completion.duration, "success", TRUE),
                     "repeat")

(* one `repeat` notification of startContinuousNotifications *)
RepeatNotification ==
    sendNotification(Message(result, completion.duration, completion.type, TRUE),
                     "repeat")

----------------------------------------------------------------------------
(* Handlers *)

Init ==
    /\ variant \in Variants
    /\ argv \in ArgvSet
    /\ pc = "start"
    /\ exitCode = -1
    /\ startTime = 0
    /\ now = 0
    /\ checkCount = 0
    /\ notificationCount = 0
    /\ completion = [type |-> "none"]
    /\ prs = <<>>
    /\ checks = <<>>
    /\ result = NoResult
    /\ events = <<>>

(* module top level: --help, then singleCheck or the start of the monitor *)
Start ==
    /\ pc = "start"
    /\ UNCHANGED <<variant, argv, now, checkCount, prs>>
    /\ IF HasDiscovery /\ help
       THEN /\ Quit(0, <<ConsoleLog("Usage")>>)
            /\ UNCHANGED startTime
       ELSE IF singleCheck
       THEN /\ Suspend("poll", <<>>)
            /\ UNCHANGED startTime
       ELSE /\ Suspend("poll", <<ConsoleLog("Starting PR checks monitoring")>>)
            /\ startTime' = now

(* one call of checkAllChecksStatus(prUrl), up to its first suspension; in
   monitor mode the loop head before it and the loop body after it *)
Poll ==
    /\ pc = "poll"
    /\ singleCheck \/ checkCount < MaxPolls
    /\ UNCHANGED <<variant, argv, startTime, now>>
    /\ checkCount' = IF singleCheck THEN checkCount ELSE checkCount + 1
    /\ LET pre == IF singleCheck THEN <<>> ELSE <<Ev("check", checkCount + 1)>>
       IN  IF ~Falsy(prUrl)
           THEN /\ prs' = prs
                /\ \E o \in CheckFromUrl(prUrl) : Return(o, pre)
           ELSE IF ~HasDiscovery
           THEN /\ prs' = prs
                /\ Return(EarlyError(<<ConsoleLog("Please provide a PR URL")>>), pre)
           ELSE \E d \in Discoveries :
                  LET n == IF d.ok THEN Len(d.list) ELSE -1
                      seen == pre \o <<Ev("discover", n)>>
                                  \o IF d.ok THEN <<>>
                                     ELSE <<ConsoleLog("Error fetching open PRs")>>
                  IN  IF ~d.ok /\ variant = "part_000"
                      THEN \* getOpenPRs returned null
                           /\ prs' = prs
                           /\ Return(EarlyError(<<>>), seen)
                      ELSE IF n <= 0 /\ variant = "part_000"
                      THEN \* selectPR: process.exit(0)
                           /\ prs' = prs
                           /\ Quit(0, seen \o <<ConsoleLog("No open PRs found"),
                                                ConsoleLog("Exiting...")>>)
                      ELSE IF n <= 0
                      THEN \* getOpenPRs returned []: promptForPRUrl
                           /\ prs' = <<>>
                           /\ Suspend("enterUrl",
                                      seen \o <<ConsoleLog("No open PRs found"),
                                                Ev("prompt", "url")>>)
                      ELSE IF n = 1
                      THEN /\ prs' = prs
                           /\ \E o \in CheckFromUrl(d.list[1].url) :
                                Return(o, seen \o <<ConsoleLog("Found 1 open PR")>>)
                      ELSE /\ prs' = d.list
                           /\ Suspend("select", seen \o <<Ev("prompt", "select")>>)

(* the rl.question callback of promptUserForPR, and what resumes after it *)
SelectAnswer ==
    /\ pc = "select"
    /\ UNCHANGED <<variant, argv, startTime, now, checkCount>>
    /\ prs' = <<>>
    /\ \E answer \in SelectAnswers :
         LET pre == <<Ev("answer", answer)>>
             selection == parseInt(answer)
         IN  IF IsQuit(answer)
             THEN Return(EarlyError(<<>>), pre \o <<ConsoleLog("Exiting...")>>)
             ELSE IF selection = NaN \/ selection < 1 \/ selection > Len(prs)
             THEN Quit(1, pre \o <<ConsoleLog("Invalid selection"),
                                   ConsoleLog("Exiting...")>>)
             ELSE \E o \in CheckFromUrl(prs[selection].url) :
                    Return(o, pre \o <<ConsoleLog("Selected PR")>>)

(* the rl.question callback of promptForPRUrl, and what resumes after it *)
UrlAnswer ==
    /\ pc = "enterUrl"
    /\ UNCHANGED <<variant, argv, startTime, now, checkCount, prs>>
    /\ \E answer \in UrlAnswers :
         LET pre == <<Ev("answer", answer)>>
         IN  IF IsQuit(answer)
             THEN Return(EarlyError(<<>>), pre \o <<ConsoleLog("Exiting...")>>)
             ELSE IF Falsy(trim(answer))
             THEN Return(EarlyError(<<>>),
                         pre \o <<ConsoleLog("No URL provided. Exiting...")>>)
             ELSE IF ~MatchGitHubPull(answer)
             THEN Return(EarlyError(<<>>),
                         pre \o <<ConsoleLog("Invalid PR URL format. Expected"),
                                  ConsoleLog("Exiting...")>>)
             ELSE \E o \in CheckFromUrl(answer) :
                    Return(o, pre \o <<ConsoleLog("Using PR URL")>>)

(* TimerFires counting the poll as well as the loop head does *)
TimerFiresCounting ==
    /\ pc = "wait"
    /\ checkCount < MaxPolls
    /\ now' = now + PollIntervalMs
    /\ pc' = "poll"
    /\ checkCount' = checkCount + 1
    /\ UNCHANGED <<variant, argv, exitCode, startTime,
                   notificationCount, completion, prs, checks, result, events>>

(* the 20000 ms timer of the poll loop fires: the next iteration starts *)
TimerFires ==
    /\ pc = "wait"
    /\ checkCount < MaxPolls
    /\ now' = now + PollIntervalMs
    /\ pc' = "poll"
    /\ UNCHANGED <<variant, argv, exitCode, startTime, checkCount,
                   notificationCount, completion, prs, checks, result, events>>

(* the timer of startContinuousNotifications fires: the next repeat *)
RepeatTimerFires ==
    /\ pc = "repeatWait"
    /\ notificationCount < MaxRepeats
    /\ now' = now + PollIntervalMs
    /\ notificationCount' = notificationCount + 1
    /\ UNCHANGED <<variant, argv, startTime, checkCount, completion, prs,
                   checks, result>>
    /\ \E repeatThrows \in BOOLEAN :
         IF repeatThrows
         THEN Exit(1, events \o <<RepeatNotification,
                                  Ev("throw", "notifier.notify"),
                                  ConsoleLog("Error:")>>)
         ELSE /\ pc' = pc
              /\ exitCode' = exitCode
              /\ events' = events \o <<RepeatNotification,
                                       Ev("wait", PollIntervalMs)>>

Next ==
    \/ Start
    \/ Poll
    \/ SelectAnswer
    \/ UrlAnswer
    \/ TimerFires
    \/ RepeatTimerFires

Spec == Init /\ [][Next]_vars

(* a timer that is armed fires: setTimeout(resolve, 20000) *)
SpecLive ==
    /\ Init
    /\ [][Next]_vars
    /\ WF_vars(TimerFires)

----------------------------------------------------------------------------
(* The aggregator on its own: every check list up to MaxChecks *)

InitAgg ==
    /\ variant = "index"
    /\ argv = <<Url12, A_single>>
    /\ pc = "parsed"
    /\ exitCode = -1
    /\ startTime = 0
    /\ now = 0
    /\ checkCount = 0
    /\ notificationCount = 0
    /\ completion = [type |-> "none"]
    /\ prs = <<>>
    /\ checks \in SeqUpTo(RawChecks, MaxChecks) \cup CasedLists
    /\ result = NoResult
    /\ events = <<>>

(* the line printed for one check: `${statusEmoji} ${context}: ${STATUS}` *)
StatusLine(check) ==
    LET status == IF Falsy(check.state) THEN S_unknown ELSE check.state
        context == IF Falsy(check.name) THEN UnknownCheck ELSE check.name
    IN  Ev("status-line", [emoji |-> getStatusEmoji(status),
                           context |-> context,
                           status |-> toUpperCase(status)])
RECURSIVE StatusLines(_)
StatusLines(list) ==
    IF list = <<>> THEN <<>>
    ELSE <<StatusLine(Head(list))>> \o StatusLines(Tail(list))

(* lines 56-120 of checkAllChecksStatus applied to the parsed list *)
Aggregate ==
    /\ pc = "parsed"
    /\ result' = Snapshot(checks, MatchPull(prUrl))
    /\ events' = IF Len(checks) = 0
                 THEN <<ConsoleLog("No checks found for this PR")>>
                 ELSE <<ConsoleLog("All Checks Status")>> \o StatusLines(checks)
    /\ pc' = "returned"
    /\ UNCHANGED <<variant, argv, exitCode, startTime, now, checkCount,
                   notificationCount, completion, prs, checks>>

NextAgg == Aggregate

SpecAgg == InitAgg /\ [][NextAgg]_vars

----------------------------------------------------------------------------
(* The duration on its own: the completion branch at the k-th poll of a run
   that started at startTime, waited k-1 times and spent FetchTimes in `gh` *)

StartTimes == {0, 86399000}
FetchTimes == {0, 1, 999, 1000, 19999, 39999, 3600000}

InitDur ==
    /\ variant = "index"
    /\ argv = <<Url12>>
    /\ pc = "completing"
    /\ exitCode = -1
    /\ startTime \in StartTimes
    /\ checkCount \in 1..MaxDurPolls
    /\ \E spent \in FetchTimes :
         now = startTime + (checkCount - 1) * PollIntervalMs + spent
    /\ notificationCount = 0
    /\ completion = [type |-> "none"]
    /\ prs = <<>>
    /\ checks = <<>>
    /\ result = NoResult
    /\ events = <<>>

(* const endTime = new Date(); const duration = formatDuration(startTime,
   endTime); ... `Total time: ${duration} (${checkCount} checks)` *)
Complete ==
    /\ pc = "completing"
    /\ events' = <<Ev("total-time", [duration |-> formatDuration(startTime, now),
                                     checks |-> checkCount])>>
    /\ pc' = "timed"
    /\ UNCHANGED <<variant, argv, exitCode, startTime, now, checkCount,
                   notificationCount, completion, prs, checks, result>>

NextDur == Complete

SpecDur == InitDur /\ [][NextDur]_vars

----------------------------------------------------------------------------
(* Reading the event log *)

At(kind) == {i \in DOMAIN events : events[i].ev = kind}
Count(kind) == Cardinality(At(kind))
Said(i, text) == events[i].ev = "print" /\ events[i].arg = text

(* indices of the log that belong to the poll whose result is event i: from i
   up to the next loop head *)
After(i) == (i + 1)..Len(events)
NextCheck(i) ==
    IF \E j \in After(i) : events[j].ev = "check"
    THEN CHOOSE j \in After(i) :
            events[j].ev = "check" /\ \A m \in (i + 1)..(j - 1) : events[m].ev # "check"
    ELSE Len(events) + 1
SamePoll(i) == (i + 1)..(NextCheck(i) - 1)

Monitoring == ~singleCheck /\ ~(HasDiscovery /\ help)
NonRepeating == variant \in {"index", "part_000"}
Terminal(i) == events[i].ev = "notify" /\ events[i].arg.type \in {"success", "failure"}
NoPending(r) == IsSnapshot(r) /\ r.summary.pending = <<>>
StillPending(r) == IsSnapshot(r) /\ r.summary.pending # <<>>

(* the classes of raw states as the specification words them: st is one of
   the words, whatever the case of its letters *)
IsCasingOf(st, w) ==
    /\ Len(st) = Len(w)
    /\ \A k \in DOMAIN w : st[k] = w[k] \/ st[k] = UpperChar(w[k])
ClassOf(check) ==
    LET st == check.state
    IN  IF \E w \in {S_pending, S_in_progress} : IsCasingOf(st, w)
        THEN "pending"
        ELSE IF \E w \in {S_failure, S_failed, S_cancelled} : IsCasingOf(st, w)
        THEN "failed"
        ELSE IF \E w \in {S_success, S_completed} : IsCasingOf(st, w)
        THEN "completed"
        ELSE "none"
NameOf(check) == IF Falsy(check.name) THEN UnknownCheck ELSE check.name
IsKnown(check) == ClassOf(check) # "none"

(* the names of the checks of a class, in the order of the list *)
RECURSIVE NamesWhere(_, _)
NamesWhere(list, class) ==
    IF list = <<>> THEN <<>>
    ELSE (IF ClassOf(Head(list)) = class THEN <<NameOf(Head(list))>> ELSE <<>>)
             \o NamesWhere(Tail(list), class)

(* the poll whose result is event i ended in a fetch error or an empty list *)
FetchFailed(i) ==
    /\ events[i].ev = "result"
    /\ IsError(events[i].arg)
    /\ i > 1
    /\ \/ Said(i - 1, "Error checking status")
       \/ Said(i - 1, "No checks found for this PR")

----------------------------------------------------------------------------
(* Claims *)

(* C1: for every non-empty check list the three summary lists of the result
   together hold as many names as summary.total. *)
C1_PartitionSizesSumToTotal ==
    IsSnapshot(result) =>
        Len(result.summary.pending) + Len(result.summary.completed)
            + Len(result.summary.failed) = result.summary.total

(* C2: in monitor mode a terminal notification is sent at a poll exactly when
   that poll's snapshot has no pending check, tagged 'failure' when hasFailures
   and 'success' otherwise; a snapshot with a pending check (failed checks or
   not) sends nothing and arms the timer of the next poll. *)
C2_NotifyIffNoPending ==
    Monitoring =>
        /\ \A i \in At("result") :
             LET r == events[i].arg
                 sent == {j \in SamePoll(i) : Terminal(j)}
             IN  /\ (sent # {}) <=> NoPending(r)
                 /\ \A j \in sent :
                      events[j].arg.type =
                          IF r.hasFailures THEN "failure" ELSE "success"
                 /\ StillPending(r) =>
                      /\ \A j \in SamePoll(i) : events[j].ev \notin {"notify", "exit"}
                      /\ \E j \in SamePoll(i) : events[j].ev = "wait"
        /\ \A j \in At("notify") : \E i \in At("result") : j \in SamePoll(i)

C2_Witness ==
    /\ Monitoring
    /\ \E i \in At("result") : \E k \in At("result") :
         /\ i < k
         /\ StillPending(events[i].arg)
         /\ events[i].arg.summary.failed # <<>>
         /\ NoPending(events[k].arg)
         /\ \E j \in SamePoll(k) : Terminal(j) /\ events[j].arg.type = "failure"

(* C3: in index.js and part_000 a monitor run calls the notifier once if some
   poll returned completed, and never otherwise; the call is tagged 'success'
   or 'failure'. *)
C3_NotifiedOnceAtCompletion ==
    (Monitoring /\ NonRepeating) =>
        /\ Count("notify") =
             IF \E i \in At("result") :
                    IsSnapshot(events[i].arg) /\ events[i].arg.completed
             THEN 1 ELSE 0
        /\ \A j \in At("notify") : Terminal(j)

C3_Witness ==
    /\ Monitoring
    /\ NonRepeating
    /\ pc = "exited"
    /\ Count("notify") = 1
    /\ \E i \in At("result") : IsError(events[i].arg)
    /\ \E i \in At("result") : StillPending(events[i].arg)

(* C4: when the polls of a run returned k-1 snapshots with a pending check and
   then one with none, the loop made k fetches and k-1 waits, each of 20000 ms,
   notified after the k-th fetch and armed no timer after the terminal poll. *)
C4_KFetchesKMinusOneWaits ==
    LET R == At("result")
        last == CHOOSE i \in R : \A m \in R : m <= i
    IN  ( /\ Monitoring
          /\ NonRepeating
          /\ R # {}
          /\ \A i \in R : IF i = last THEN NoPending(events[i].arg)
                          ELSE StillPending(events[i].arg) )
        => /\ Count("fetch") = Cardinality(R)
           /\ Count("wait") = Cardinality(R) - 1
           /\ \A w \in At("wait") : events[w].arg = 20000 /\ w < last
           /\ Count("notify") = 1
           /\ \A j \in At("notify") : \A f \in At("fetch") : f < j
           /\ checkCount = Cardinality(R)

C4_Witness ==
    /\ Monitoring
    /\ NonRepeating
    /\ pc = "exited"
    /\ Count("result") = 3
    /\ Count("fetch") = 3
    /\ Count("wait") = 2
    /\ \A i \in At("result") : IsSnapshot(events[i].arg)
    /\ \E j \in At("notify") : events[j].arg.type = "success"

(* C5, as claimed: in every variant a monitor poll that ends in a fetch error
   or an empty check list is followed by the wait, not by the end of the run. *)
C5_ErrorsRetriedEverywhere ==
    Monitoring =>
        \A i \in At("result") :
            FetchFailed(i) =>
                /\ \E j \in SamePoll(i) : events[j].ev = "wait"
                /\ \A j \in SamePoll(i) : events[j].ev # "exit"

(* C5, amended: in index.js and part_000 such a poll reports, arms the 20000 ms
   timer and does not end the run, and a later poll without pending checks is
   notified as usual; in github-pr-monitor.js such a poll ends the process with
   exit status 1 and arms no timer. *)
C5_ErrorsRetriedOrHalt ==
    Monitoring =>
        \A i \in At("result") :
            FetchFailed(i) =>
                IF NonRepeating
                THEN /\ \E j \in SamePoll(i) :
                          Said(j, "Error occurred, will retry in 20 seconds")
                     /\ \E j \in SamePoll(i) :
                          events[j].ev = "wait" /\ events[j].arg = PollIntervalMs
                     /\ \A j \in SamePoll(i) : events[j].ev # "exit"
                     /\ \A k \in At("result") :
                          (k > i /\ NoPending(events[k].arg)) =>
                              \E j \in SamePoll(k) : Terminal(j)
                ELSE /\ \A j \in After(i) : events[j].ev # "wait"
                     /\ pc = "exited"
                     /\ exitCode = 1

C5_Witness ==
    /\ Monitoring
    /\ NonRepeating
    /\ \E i \in At("result") : \E k \in At("result") : \E n \in At("result") :
         /\ i < k /\ k < n
         /\ FetchFailed(i) /\ Said(i - 1, "Error checking status")
         /\ FetchFailed(k) /\ Said(k - 1, "No checks found for this PR")
         /\ NoPending(events[n].arg)
         /\ \E j \in SamePoll(n) : Terminal(j)

(* C6: once a reference that does not parse is reported, the invocation has
   halted with a non-zero exit status and no timer is armed for another poll. *)
C6_InvalidReferenceHalts ==
    ( /\ prUrl \notin {A_single, A_verbose, A_help, A_h}
      /\ \E i \in DOMAIN events : Said(i, "Invalid PR URL format. Expected format") )
    =>
        /\ pc = "exited"
        /\ exitCode # 0
        /\ Count("wait") = 0

(* C7: with no reference supplied, once discovery has returned zero open pull
   requests the invocation has halted with a non-zero exit status, having
   fetched no checks and asked the user nothing. *)
C7_NoOpenPullRequestsHalts ==
    (\E i \in At("discover") : events[i].arg = 0) =>
        /\ pc = "exited"
        /\ exitCode # 0
        /\ Count("fetch") = 0
        /\ Count("prompt") = 0

(* C8: in single mode, when the one poll failed with a fetch or parse error,
   the process ends with exit status 1. *)
C8_SingleFetchErrorExitsOne ==
    ( /\ singleCheck
      /\ pc = "exited"
      /\ \E i \in DOMAIN events : Said(i, "Error checking status") )
    => exitCode = 1

(* C9: after 'q' or 'quit' is answered at a pull-request prompt no checks are
   fetched, no prompt is shown and no notification is sent. *)
C9_QuitEndsTheRun ==
    \A i \in At("answer") :
        IsQuit(events[i].arg) =>
            \A j \in After(i) : events[j].ev \notin {"fetch", "prompt", "notify"}

(* C10: invoked with option flags only, an entry point that has discovery
   consults it, and does not take the flag for the reference. *)
C10_FlagsOnlyUsesDiscovery ==
    ( /\ HasDiscovery
      /\ argv # <<>>
      /\ \A k \in DOMAIN argv : argv[k] \in {A_single, A_verbose}
      /\ pc \notin {"start", "poll"} )
    => /\ Count("discover") >= 1
       /\ \A i \in DOMAIN events : ~Said(i, "Invalid PR URL format. Expected format")

(* C11: in a monitor run, after the first poll whose snapshot has no pending
   check no further poll starts and no checks are fetched, and every
   notification from then on (the terminal one, and the repeated ones of
   github-pr-monitor.js) carries the outcome and pull request of that poll. *)
C11_TerminalIsAbsorbing ==
    Monitoring =>
        \A i \in At("result") :
            LET r == events[i].arg
                type == IF r.hasFailures THEN "failure" ELSE "success"
                outcome == IF r.hasFailures THEN "completed with failures"
                           ELSE "completed successfully"
            IN  NoPending(r) =>
                  /\ \A j \in After(i) :
                       /\ events[j].ev \notin {"check", "fetch", "result", "discover"}
                       /\ events[j].ev = "notify" =>
                            /\ events[j].arg.type \in {type, "repeat"}
                            /\ events[j].arg.message.outcome = outcome
                            /\ events[j].arg.message.prNumber = r.prNumber
                  /\ completion.type \in {"none", type}
                  /\ result = r

C11_Witness ==
    /\ Monitoring
    /\ variant = "github-pr-monitor"
    /\ notificationCount = MaxRepeats
    /\ pc = "repeatWait"
    /\ Count("notify") = MaxRepeats + 1
    /\ \E i \in At("result") :
         /\ NoPending(events[i].arg)
         /\ events[i].arg.hasFailures
         /\ \E k \in At("result") : k < i /\ StillPending(events[k].arg)

(* C12: between any two consecutive check fetches of a monitor run the loop
   arms its timer exactly once, for the full 20000 ms. *)
C12_OneWaitBetweenFetches ==
    Monitoring =>
        \A f \in At("fetch") : \A g \in At("fetch") :
            (f < g /\ \A m \in (f + 1)..(g - 1) : events[m].ev # "fetch") =>
                LET waits == {w \in (f + 1)..(g - 1) : events[w].ev = "wait"}
                IN  /\ Cardinality(waits) = 1
                    /\ \A w \in waits : events[w].arg = PollIntervalMs

(* C13: when notifier.notify throws, the run ends as it does when the
   notification is delivered: nothing is reported as an error and the exit
   status is not the failure status 1. *)
C13_NotifierFailureSwallowed ==
    \A i \in At("throw") :
        events[i].arg = "notifier.notify" =>
            /\ \A j \in After(i) : ~Said(j, "Error:")
            /\ ~(pc = "exited" /\ exitCode = 1)

(* C14: for every non-empty check list the completed flag of the result is
   true exactly when summary.pending is empty. *)
C14_CompletedIffNoPending ==
    IsSnapshot(result) =>
        (result.completed <=> result.summary.pending = <<>>)

C14_Witness ==
    /\ pc = "returned"
    /\ IsSnapshot(result)
    /\ ~result.completed
    /\ Len(result.summary.pending) = 1
    /\ result.summary.failed # <<>>

(* C15: hasFailures is true exactly when summary.failed is non-empty, and
   summary.failed holds exactly the names of the checks whose raw state is
   failure, failed or cancelled: as many entries as there are such checks, and
   the same names. *)
C15_FailedAreTheFailures ==
    IsSnapshot(result) =>
        LET failed == result.summary.failed
            F == {k \in DOMAIN checks : ClassOf(checks[k]) = "failed"}
        IN  /\ result.hasFailures <=> failed # <<>>
            /\ Len(failed) = Cardinality(F)
            /\ {failed[k] : k \in DOMAIN failed} = {NameOf(checks[k]) : k \in F}

C15_Witness ==
    /\ pc = "returned"
    /\ IsSnapshot(result)
    /\ result.hasFailures
    /\ Len(checks) = 2
    /\ checks[1].state = S_Cancelled
    /\ checks[2].state = S_success
    /\ result.summary.failed = <<N_ci>>

(* C16: a list of one check whose state is success or completed, in any letter
   casing, yields that check's name in summary.completed alone; failure, failed
   or cancelled, in summary.failed alone; pending or in_progress, in
   summary.pending alone; and no state belongs to two of the three classes. *)
C16_ClassifiedWhateverTheCase ==
    (pc = "returned" /\ Len(checks) = 1 /\ checks \in CasedLists) =>
        LET st == checks[1].state
            sum == result.summary
            isCompleted == \E w \in {S_success, S_completed} : st \in Casings(w)
            isFailed ==
                \E w \in {S_failure, S_failed, S_cancelled} : st \in Casings(w)
            isPending == \E w \in {S_pending, S_in_progress} : st \in Casings(w)
        IN  /\ IsSnapshot(result)
            /\ isCompleted =>
                 sum.completed = <<N_ci>> /\ sum.failed = <<>> /\ sum.pending = <<>>
            /\ isFailed =>
                 sum.failed = <<N_ci>> /\ sum.completed = <<>> /\ sum.pending = <<>>
            /\ isPending =>
                 sum.pending = <<N_ci>> /\ sum.completed = <<>> /\ sum.failed = <<>>
            /\ ~(isCompleted /\ isFailed)
            /\ ~(isCompleted /\ isPending)
            /\ ~(isFailed /\ isPending)
            /\ isCompleted \/ isFailed \/ isPending

C16_Witness ==
    /\ pc = "returned"
    /\ checks = <<Chk(N_ci, <<"i","N","_","P","r","o","G","R","e","s","S">>)>>
    /\ result.summary.pending = <<N_ci>>
    /\ ~result.completed

(* C18: a check whose raw state is none of the seven known words (an absent or
   empty state included) is in none of the three summary lists and is counted
   in summary.total, and the flags and lists of the result are those of the
   list without such checks. *)
C18_UnknownStateIsDropped ==
    IsSnapshot(result) =>
        LET known == SelectSeq(checks, IsKnown)
            sum == result.summary
            rest == Snapshot(known, result.prNumber)
        IN  /\ sum.total = Len(checks)
            /\ Len(sum.pending) + Len(sum.completed) + Len(sum.failed) = Len(known)
            /\ IF known = <<>>
               THEN /\ result.completed
                    /\ ~result.hasFailures
                    /\ sum.pending = <<>> /\ sum.completed = <<>> /\ sum.failed = <<>>
               ELSE /\ result.completed = rest.completed
                    /\ result.hasFailures = rest.hasFailures
                    /\ sum.pending = rest.summary.pending
                    /\ sum.completed = rest.summary.completed
                    /\ sum.failed = rest.summary.failed

C18_Witness ==
    /\ pc = "returned"
    /\ Len(checks) = 2
    /\ checks[1].state = Undefined
    /\ checks[2].state = S_success
    /\ result.summary.total = 2
    /\ result.summary.completed = <<NameOf(checks[2])>>
    /\ result.summary.pending = <<>>
    /\ result.summary.failed = <<>>
    /\ result.completed
    /\ ~result.hasFailures

(* C19: each of the three summary lists holds the names of its checks in the
   order of the input list, a missing name being 'Unknown Check'. *)
C19_ListsKeepInputOrder ==
    IsSnapshot(result) =>
        /\ result.summary.pending = NamesWhere(checks, "pending")
        /\ result.summary.completed = NamesWhere(checks, "completed")
        /\ result.summary.failed = NamesWhere(checks, "failed")

C19_Witness ==
    /\ pc = "returned"
    /\ Len(checks) = 2
    /\ checks[1].name = Undefined
    /\ checks[2].name = N_ci
    /\ result.summary.failed = <<UnknownCheck, N_ci>>

(* C17: a poll that fetched an empty check list returns the error result,
   which has no completed flag, no summary and no other field, and the loop
   neither notifies nor prints progress or a summary for that poll. *)
C17_EmptyListIsAnError ==
    \A i \in At("result") :
        (i > 1 /\ Said(i - 1, "No checks found for this PR")) =>
            /\ DOMAIN events[i].arg = {"error"}
            /\ events[i].arg.error
            /\ \A j \in SamePoll(i) :
                 /\ events[j].ev # "notify"
                 /\ ~Said(j, "Progress")
                 /\ ~Said(j, "Summary")

C17_Witness ==
    /\ Monitoring
    /\ pc = "wait"
    /\ checks = <<>>
    /\ result = ErrorResult
    /\ Count("notify") = 0
    /\ \E i \in At("result") :
         /\ Said(i - 1, "No checks found for this PR")
         /\ \E k \in At("result") : k < i /\ StillPending(events[k].arg)

(* C20: every poll's summary is built from that poll's list alone: it counts
   and lists no more checks than the list has, and two polls of a run that
   fetched the same list returned the same flags and the same summary. *)
C20_SummaryOfThisPollOnly ==
    \A i \in At("result") :
        LET r == events[i].arg
        IN  IsSnapshot(r) =>
              /\ r.summary.total = Len(r.checks)
              /\ Len(r.summary.pending) + Len(r.summary.completed)
                     + Len(r.summary.failed) <= Len(r.checks)
              /\ \A k \in At("result") :
                   (IsSnapshot(events[k].arg) /\ events[k].arg.checks = r.checks)
                   => /\ events[k].arg.summary = r.summary
                      /\ events[k].arg.completed = r.completed
                      /\ events[k].arg.hasFailures = r.hasFailures

C20_Witness ==
    /\ Monitoring
    /\ \E i \in At("result") : \E k \in At("result") : \E n \in At("result") :
         /\ i < k /\ k < n
         /\ StillPending(events[i].arg)
         /\ events[k].arg = events[i].arg
         /\ NoPending(events[n].arg)
         /\ events[n].arg.summary.total = 1
         /\ events[n].arg.summary.completed = <<N_ci>>

(* C21: in a monitor run checkCount is 0 before the first poll and then equals
   the number of polls started so far, polls that ended in an error included;
   the n-th loop head shows n, and the count reported at completion is the
   number of polls started. *)
C21_CheckCountCountsPolls ==
    Monitoring =>
        /\ checkCount = Count("check")
        /\ \A i \in At("check") :
             events[i].arg = Cardinality({j \in At("check") : j <= i})
        /\ \A t \in At("total-time") : events[t].arg.checks = Count("check")

C21_Witness ==
    /\ Monitoring
    /\ pc = "exited"
    /\ checkCount = 3
    /\ \E i \in At("result") : FetchFailed(i)
    /\ \E i \in At("result") : StillPending(events[i].arg)
    /\ \E t \in At("total-time") : events[t].arg.checks = 3

(* C22: in a monitor run the polls do not overlap: a poll makes at most one
   fetch and returns one result, no timer is armed while a poll is suspended
   at a prompt, and the next poll starts only after the result of the poll
   before it and, after that result, one wait on the timer. *)
C22_PollsDoNotOverlap ==
    Monitoring =>
        /\ \A c \in At("check") :
             LET poll == SamePoll(c)
                 results == {r \in poll : events[r].ev = "result"}
                 waits == {w \in poll : events[w].ev = "wait"}
             IN  /\ Cardinality({f \in poll : events[f].ev = "fetch"}) <= 1
                 /\ Cardinality(results) <= 1
                 /\ \A f \in poll : events[f].ev = "fetch" =>
                        \E r \in results : f < r
                 /\ \A w \in waits : \E r \in results : r < w
                 /\ NextCheck(c) <= Len(events) =>
                        Cardinality(results) = 1 /\ Cardinality(waits) = 1
        /\ pc \in {"select", "enterUrl"} =>
             /\ events[Len(events)].ev = "prompt"
             /\ \A c \in At("check") :
                  NextCheck(c) > Len(events) =>
                      \A j \in SamePoll(c) : events[j].ev \notin {"wait", "result"}
        /\ pc = "poll" => (checkCount = 0 \/ events[Len(events)].ev = "wait")

C22_Witness ==
    /\ Monitoring
    /\ pc = "select"
    /\ checkCount = 3
    /\ Count("fetch") = 2
    /\ Count("wait") = 2
    /\ \E i \in At("answer") : \E r \in At("result") :
         i < r /\ StillPending(events[r].arg)

(* C23: a single-mode invocation performs one poll: at most one result and one
   fetch, exactly one fetch when the poll came to a snapshot or to a fetch
   error, no loop head, no wait on the timer and no notification, and the
   process ends once the poll has returned, whatever the snapshot is. *)
C23_SingleModePollsOnce ==
    singleCheck =>
        /\ Count("fetch") <= 1
        /\ Count("result") <= 1
        /\ Count("check") = 0
        /\ Count("wait") = 0
        /\ Count("notify") = 0
        /\ checkCount = 0
        /\ \A i \in At("result") :
             /\ pc = "exited"
             /\ i + 1 = Len(events)
             /\ (IsSnapshot(events[i].arg) \/ FetchFailed(i)) => Count("fetch") = 1

C23_Witness ==
    /\ singleCheck
    /\ pc = "exited"
    /\ Count("fetch") = 1
    /\ Count("notify") = 0
    /\ \E i \in At("result") :
         NoPending(events[i].arg) /\ events[i].arg.hasFailures

(* the glyph printed for the k-th check of the list *)
GlyphOf(k) == events[k + 1].arg.emoji

(* C24, as claimed: the glyphs follow the three classes of aggregation and a
   default: two checks of the same summary list are printed with the same
   glyph, a check of no list with the 'unknown' glyph, and there are four
   glyphs. *)
C24_GlyphPerClass ==
    (pc = "returned" /\ IsSnapshot(result)) =>
        /\ \A k \in DOMAIN checks : \A m \in DOMAIN checks :
             (IsKnown(checks[k]) /\ ClassOf(checks[k]) = ClassOf(checks[m]))
                 => GlyphOf(k) = GlyphOf(m)
        /\ \A k \in DOMAIN checks :
             /\ ~IsKnown(checks[k]) => GlyphOf(k) = "question-mark"
             /\ GlyphOf(k) \in {"check-mark", "cross-mark", "yellow-circle",
                                "question-mark"}

(* C24, amended: the glyph is that of the check's class, except that
   cancelled, which aggregation lists with failure and failed, has a glyph of
   its own; every other state has the 'unknown' glyph; five glyphs in all;
   the printed line carries the check's name and its state in upper case. *)
C24_GlyphPerClassButCancelled ==
    (pc = "returned" /\ IsSnapshot(result)) =>
        /\ Len(events) = Len(checks) + 1
        /\ \A k \in DOMAIN checks :
             LET c == checks[k]
                 line == events[k + 1]
             IN  /\ line.ev = "status-line"
                 /\ line.arg.context = NameOf(c)
                 /\ IsKnown(c) => IsCasingOf(line.arg.status, toLowerCase(c.state))
                 /\ GlyphOf(k) =
                      IF IsCasingOf(c.state, S_cancelled) THEN "white-circle"
                      ELSE IF ClassOf(c) = "failed" THEN "cross-mark"
                      ELSE IF ClassOf(c) = "completed" THEN "check-mark"
                      ELSE IF ClassOf(c) = "pending" THEN "yellow-circle"
                      ELSE "question-mark"
        /\ Cardinality({getStatusEmoji(st) :
                            st \in RawStates \ {EmptyString, Undefined}}) = 5

C24_Witness ==
    /\ pc = "returned"
    /\ Len(checks) = 2
    /\ checks[1].state = S_Cancelled
    /\ checks[2].state = S_failure
    /\ Len(result.summary.failed) = 2
    /\ GlyphOf(1) = "white-circle"
    /\ GlyphOf(2) = "cross-mark"

(* process.exit inside selectPR or promptUserForPR of part_000 *)
DiscoveryHalt ==
    /\ Len(events) >= 3
    /\ Said(Len(events) - 1, "Exiting...")
    /\ \/ Said(Len(events) - 2, "No open PRs found")
       \/ Said(Len(events) - 2, "Invalid selection")
ReachedTerminal ==
    \E i \in At("result") :
        NoPending(events[i].arg) /\ \E j \in SamePoll(i) : Terminal(j)

(* C25, as claimed: a monitor run of index.js or part_000 that has ended has
   reached the terminal state. *)
C25_EndsOnlyAtTerminal ==
    (Monitoring /\ NonRepeating /\ pc = "exited") => ReachedTerminal

(* C25, amended: a monitor run of index.js or part_000 ends of itself only
   after a poll without pending checks, which it notifies, or, in part_000
   without a URL, when discovery finds no open pull request or the selection
   is invalid; a poll without pending checks always ends the run; and after
   any other poll the timer is armed and the next poll starts, as long as
   polls are left to the model. *)
C25_EndsAtTerminalOrDiscoveryHalt ==
    /\ [](( Monitoring /\ NonRepeating ) =>
            /\ pc = "exited" =>
                 \/ ReachedTerminal
                 \/ variant = "part_000" /\ Falsy(prUrl) /\ DiscoveryHalt
            /\ \A i \in At("result") :
                 NoPending(events[i].arg) => (pc = "exited" /\ ReachedTerminal)
            /\ \A i \in At("result") :
                 ~NoPending(events[i].arg) =>
                     \E j \in SamePoll(i) :
                         events[j].ev = "wait" /\ events[j].arg = PollIntervalMs)
    /\ []((Monitoring /\ NonRepeating /\ pc = "poll" /\ checkCount < MaxPolls)
             => ENABLED Poll)
    /\ (Monitoring /\ NonRepeating /\ pc = "wait" /\ checkCount < MaxPolls)
           ~> (pc = "poll")

C25_Witness ==
    /\ Monitoring
    /\ NonRepeating
    /\ pc = "exited"
    /\ checkCount = MaxPolls
    /\ ReachedTerminal
    /\ \E i \in At("result") : FetchFailed(i)
    /\ \E i \in DOMAIN events : Said(i, "Error fetching open PRs")

Repeats == {j \in At("notify") : events[j].arg.type = "repeat"}

(* C26: in github-pr-monitor.js, once a poll's snapshot has no pending check
   the run sends one notification tagged 'success' or 'failure', the first
   'repeat' directly after it and then one 'repeat' per 20000 ms wait; the run
   does not end, and every 'repeat' carries the outcome, pull request,
   duration and failed names of the terminal poll. *)
C26_RepeatsForever ==
    (Monitoring /\ variant = "github-pr-monitor") =>
        \A i \in At("result") :
            LET r == events[i].arg
                sent == {j \in After(i) : Terminal(j)}
            IN  NoPending(r) =>
                  /\ Cardinality(sent) = 1
                  /\ pc = "repeatWait"
                  /\ exitCode = -1
                  /\ Cardinality(Repeats) = notificationCount
                  /\ notificationCount >= 1
                  /\ \A t \in sent :
                       /\ events[t + 1].ev = "notify"
                       /\ events[t + 1].arg.type = "repeat"
                       /\ \A j \in Repeats :
                            /\ j > t
                            /\ events[j + 1].ev = "wait"
                            /\ events[j + 1].arg = PollIntervalMs
                            /\ events[j].arg.message.outcome =
                                   events[t].arg.message.outcome
                            /\ events[j].arg.message.prNumber = r.prNumber
                            /\ events[j].arg.message.duration =
                                   events[t].arg.message.duration
                            /\ events[j].arg.message.failed = r.summary.failed
                  /\ Count("wait") = Count("check") - 1 + notificationCount

(* C27: in a monitor run started without a URL, once a pull request has been
   chosen and its checks fetched, pull requests are not discovered again, the
   user is not asked again, and every later fetch is for that pull request. *)
C27_DiscoveryHappensOnce ==
    (Monitoring /\ HasDiscovery /\ Falsy(prUrl)) =>
        \A f \in At("fetch") :
            \A j \in After(f) :
                /\ events[j].ev \notin {"discover", "prompt"}
                /\ events[j].ev = "fetch" => events[j].arg = events[f].arg

(* C28: a notification tagged 'success' is sent only at a poll whose snapshot
   has every check in summary.completed, so never at a poll whose list holds
   a check in an unrecognised or absent state. *)
C28_SuccessMeansAllSucceeded ==
    Monitoring =>
        \A i \in At("result") :
            \A j \in SamePoll(i) :
                (events[j].ev = "notify" /\ events[j].arg.type = "success") =>
                    /\ IsSnapshot(events[i].arg)
                    /\ Len(events[i].arg.summary.completed)
                           = events[i].arg.summary.total
                    /\ \A k \in DOMAIN events[i].arg.checks :
                         IsKnown(events[i].arg.checks[k])

(* C29: the duration reported at completion is that of d = now - startTime
   milliseconds: minutes = d div 60000, shown only when at least 1, seconds =
   (d mod 60000) div 1000, between 0 and 59, and minutes * 60 + seconds =
   d div 1000; a run that completes at poll k having spent less than a second
   in its fetches reports (k - 1) * 20 seconds. *)
C29_DurationIsElapsedTime ==
    pc = "timed" =>
        LET d == now - startTime
            t == events[1].arg.duration
            minutes == IF t.form = "m s" THEN t.minutes ELSE 0
            k == events[1].arg.checks
        IN  /\ d >= 0
            /\ t.form \in {"m s", "s"}
            /\ t.form = "m s" <=> d >= 60000
            /\ minutes = d \div 60000
            /\ t.seconds = (d % 60000) \div 1000
            /\ t.seconds >= 0 /\ t.seconds <= 59
            /\ minutes * 60 + t.seconds = d \div 1000
            /\ minutes * 60000 + t.seconds * 1000 <= d
            /\ d < minutes * 60000 + t.seconds * 1000 + 1000
            /\ d - (k - 1) * PollIntervalMs < 1000 =>
                   minutes * 60 + t.seconds = (k - 1) * 20

C29_Witness ==
    /\ pc = "timed"
    /\ checkCount = 5
    /\ now - startTime = 80999
    /\ events[1].arg.duration = [form |-> "m s", minutes |-> 1, seconds |-> 20]

====
